---- MODULE Spec2Model ----
(***************************************************************************)
(* Reminders and link attachments of the task tracker (server/index.js,   *)
(* server/db.js).  Spec is the reminder engine with the clock running,     *)
(* SpecApi the reminder routes next to the routes that delete their        *)
(* targets, SpecLinks the link routes with their suspended requests,       *)
(* SpecExtract the field extraction of getLinkPreview on every page.       *)
(*                                                                         *)
(* Time is counted in ticks; TicksPerSec ticks make one second, so that    *)
(* the sub-second part of an ISO timestamp, which SQLite's datetime()      *)
(* drops, is visible in the model.  A string that carries a date is a      *)
(* record [fmt, t, pad]: fmt is the syntax of the string, t the instant it *)
(* denotes and pad tells whether it is surrounded by white space.          *)
(***************************************************************************)
EXTENDS Integers, Sequences, FiniteSets, TLC

\* ---- bounds of the model ----
MaxClock == 1
MaxReminders == 2
MaxPending == 2
TicksPerSec == 2
MaxLinks == 1

\* ---- constants of the program ----
MinTake == 1
MaxTake == 50
DefaultTake == 20

\* ---- values ----
NULL == [fmt |-> "null", t |-> 0, pad |-> FALSE]

Iso(t) == [fmt |-> "iso", t |-> t, pad |-> FALSE]

\* syntaxes of a date string: "iso" is what Date.prototype.toISOString
\* produces (2024-01-01T10:00:00.500Z), "rfc" is a form such as
\* "Mon, 01 Jan 2024 10:00:00 GMT" (whole seconds), "bad" is not a date,
\* "empty" is the empty string, "absent" is a value that is not a string
\* (the field is missing from the request body).
Absent == [fmt |-> "absent", t |-> 0, pad |-> FALSE]

Empty == [fmt |-> "empty", t |-> 0, pad |-> FALSE]

DueAtInputs ==
  { [fmt |-> "iso", t |-> t, pad |-> FALSE] : t \in 0..(MaxClock + 1) }
  \cup { [fmt |-> "iso", t |-> 0, pad |-> TRUE],
         [fmt |-> "rfc", t |-> 0, pad |-> FALSE],
         [fmt |-> "bad", t |-> 0, pad |-> FALSE],
         Absent }

MessageInputs == {"ping", "absent"}

IsDoneInputs == {"absent", "true", "false"}

\* a JavaScript number: an integer v, v + 1/2, or NaN
Whole(v) == [kind |-> "int", v |-> v]

Frac(v) == [kind |-> "frac", v |-> v]

NaN == [kind |-> "nan", v |-> 0]

\* the take query parameter: absent, or a string
TakeInputs == {"absent", "0", "1", "51", "1.5", "abc"}

TargetTypeInputs == {"TASK", "NOTE", "PROJECT"}

TargetIdInputs == {Whole(1), NaN}

\* ids of the tasks and notes of the store
TargetIds == {1}

\* the :id of a request path
IdInputs == { Whole(i) : i \in 1..MaxReminders } \cup {NaN}

\* a string that may carry a URL: scheme is "http" or "https" for an absolute
\* http(s) URL, "ftp" for an absolute URL of another scheme, "rel" for a
\* string new URL() rejects (a path, a bare word), "empty" for a string of
\* white space only, "absent" for a value that is not a string
Url(scheme, pad) == [scheme |-> scheme, pad |-> pad]

UrlInputs ==
  { Url("http", FALSE), Url("https", TRUE), Url("ftp", FALSE), Url("rel", FALSE),
    Url("empty", TRUE), Url("absent", FALSE) }

\* a text a page carries in a meta tag, a title or a link: name is what the
\* text says ("" for white space only), pad tells whether it is surrounded by
\* white space; Undefined is the value of an attribute that is not there
Text(name, pad) == [name |-> name, pad |-> pad]

Blank == [name |-> "", pad |-> TRUE]

Undefined == [name |-> "undefined", pad |-> FALSE]

\* the pages a fetch can bring: every candidate there; the og: tags blank
\* and the fallbacks there; nothing there
PageInputs ==
  { [ ogTitle |-> Text("og-title", TRUE), docTitle |-> Text("title", FALSE),
      ogDescription |-> Text("og-description", FALSE), metaDescription |-> Text("description", FALSE),
      ogImage |-> Text("/og.png", FALSE), twitterImage |-> Text("/tw.png", FALSE),
      icon |-> Text("/favicon.ico", FALSE), shortcutIcon |-> Text("/shortcut.ico", FALSE),
      appleIcon |-> Text("/apple.png", FALSE) ],
    [ ogTitle |-> Blank, docTitle |-> Text("title", TRUE),
      ogDescription |-> Blank, metaDescription |-> Text("description", FALSE),
      ogImage |-> Undefined, twitterImage |-> Text("/tw.png", FALSE),
      icon |-> Undefined, shortcutIcon |-> Blank,
      appleIcon |-> Text("/apple.png", FALSE) ],
    [ ogTitle |-> Undefined, docTitle |-> Blank,
      ogDescription |-> Undefined, metaDescription |-> Undefined,
      ogImage |-> Undefined, twitterImage |-> Undefined,
      icon |-> Undefined, shortcutIcon |-> Undefined,
      appleIcon |-> Undefined ] }

\* how a fetch ends: a 2xx response with a page, which comes from the url
\* asked for ("same") or from the url its redirects end at ("moved"), a
\* response that is not 2xx, a network error
FetchOutcomes ==
  { [kind |-> "ok", page |-> pg, from |-> f] : pg \in PageInputs, f \in {"same", "moved"} }
  \cup { [kind |-> "status"], [kind |-> "error"] }

\* how a capture ends once the browser is launched: the screenshot is
\* written, no page can be created, the navigation times out, the
\* screenshot fails (the browser or the page crashes)
ShotOutcomes == {"ok", "nopage", "timeout", "crash"}

\* the routes that enrich a URL
LinkRoutes == {"TASK", "NOTE", "PREVIEW"}

\* the environment a process can start in
CapsInputs == [flag : BOOLEAN, cheerio : BOOLEAN, playwright : BOOLEAN]

\* ---- library functions the handlers call ----

\* String.prototype.trim
Trim(s) == [s EXCEPT !.pad = FALSE]

\* faulty variant: every string is taken for a date
DateParseFiniteAny(s) == TRUE

\* Number.isFinite(Date.parse(s))
DateParseFinite(s) == s.fmt \in {"iso", "rfc"}

\* Date.parse(s), the instant in ticks, for a string it accepts
DateParse(s) == s.t

\* SQLite datetime(s) IS NULL: SQLite reads ISO-8601 only
SqlDatetimeIsNull(s) == s.fmt # "iso"

\* SQLite datetime(s): the instant cut to whole seconds
SqlDatetime(s) == s.t \div TicksPerSec

\* Number(v) of a query string
Number(q) ==
  CASE q = "0" -> Whole(0)
    [] q = "1" -> Whole(1)
    [] q = "51" -> Whole(51)
    [] q = "1.5" -> Frac(1)
    [] OTHER -> NaN

\* Math.min(a, x) and Math.max(a, x) for an integer a
MathMin(a, x) ==
  CASE x.kind = "nan" -> NaN
    [] x.kind = "int" -> IF a <= x.v THEN Whole(a) ELSE x
    [] OTHER -> IF a <= x.v THEN Whole(a) ELSE x

MathMax(a, x) ==
  CASE x.kind = "nan" -> NaN
    [] x.kind = "int" -> IF a >= x.v THEN Whole(a) ELSE x
    [] OTHER -> IF a > x.v THEN Whole(a) ELSE x

\* ---- state ----
VARIABLES
  clock,      \* the wall clock, in ticks
  tasks,      \* ids of the rows of table tasks
  notes,      \* ids of the rows of table notes
  reminders,  \* the rows of table reminders
  nextId,     \* the next AUTOINCREMENT id of table reminders
  ev,         \* the last request handled (or the last tick) and its response
  batch,      \* history: the polls racing on one store state and what they returned
  delivered,  \* history: ids a poll returned and no update has re-armed since
  links,      \* the rows of table link_attachments
  nextLinkId, \* the next AUTOINCREMENT id of table link_attachments
  pending,    \* the link requests whose handler is suspended at an await
  caps,       \* the environment of the process: LINK_SCREENSHOTS and the optional modules
  browsers    \* the requests whose headless browser is launched and not closed

\* what the link-attachment routes work on
linkVars == <<links, nextLinkId, pending, caps, browsers>>

vars == <<clock, tasks, notes, reminders, nextId, ev, batch, delivered, linkVars>>

store == <<tasks, notes, reminders, nextId>>

\* nowIso()
nowIso == Iso(clock)

\* safeBoolean(v)
safeBoolean(v) == v # 0

\* toReminder(row)
toReminder(row) ==
  [ id |-> row.id,
    targetType |-> row.targetType,
    targetId |-> row.targetId,
    dueAt |-> row.dueAt,
    message |-> row.message,
    isDone |-> safeBoolean(row.isDone),
    firedAt |-> row.firedAt,
    createdAt |-> row.createdAt ]

RowIn(rows, id) == CHOOSE r \in rows : r.id = id

RowById(id) == RowIn(reminders, id)

Ids(rows) == { rows[i].id : i \in 1..Len(rows) }

\* ORDER BY datetime(dueAt) ASC, id ASC; SQLite sorts NULL first
OrderKey(r) == IF SqlDatetimeIsNull(r.dueAt) THEN -1 ELSE SqlDatetime(r.dueAt)

RowBefore(a, b) ==
  \/ OrderKey(a) < OrderKey(b)
  \/ OrderKey(a) = OrderKey(b) /\ a.id < b.id

RECURSIVE OrderRows(_)
OrderRows(S) ==
  IF S = {} THEN <<>>
  ELSE LET first == CHOOSE a \in S : \A b \in S \ {a} : RowBefore(a, b)
       IN <<first>> \o OrderRows(S \ {first})

\* LIMIT n
Limit(rows, n) == SubSeq(rows, 1, IF n < Len(rows) THEN n ELSE Len(rows))

\* history: a reminder the store holds as not done and not fired whose due
\* instant (as Date.parse reads it) is not later than the clock
DueArmed(r) == r.isDone = 0 /\ r.firedAt = NULL /\ DateParse(r.dueAt) <= clock

\* history of the polls that race on one store state.  A handler has no
\* await and better-sqlite3 is synchronous, so the server runs the handlers
\* of concurrent requests one after the other, in any order: a race of
\* polls is a run of poll handlers with no other request handled between
\* them.  n counts the polls of the run, due holds the ids that were
\* DueArmed when the run began, got the ids the polls returned, and short
\* tells whether some poll returned fewer rows than its limit.
NoBatch == [n |-> 0, due |-> {}, got |-> <<>>, short |-> FALSE]

\* the tables as db.js creates them, in a database file that already holds
\* one task and no note (tasks and notes are kept by routes outside this
\* model); no reminder has been created yet
Init ==
  /\ clock = 0
  /\ tasks = TargetIds
  /\ notes = {}
  /\ reminders = {}
  /\ nextId = 1
  /\ ev = [op |-> "init"]
  /\ batch = NoBatch
  /\ delivered = {}
  /\ links = {}
  /\ nextLinkId = 1
  /\ pending = {}
  /\ caps = [flag |-> FALSE, cheerio |-> FALSE, playwright |-> FALSE]
  /\ browsers = {}

\* time passes
Tick ==
  /\ clock < MaxClock
  /\ clock' = clock + 1
  /\ ev' = [op |-> "tick"]
  /\ UNCHANGED <<store, batch, delivered, linkVars>>


\* ---- POST /api/reminders ----

\* db.prepare('SELECT id FROM <table> WHERE id = ?').get(id) finds a row
Found(ids, x) == x.kind = "int" /\ x.v \in ids

\* faulty variant: the target is looked up in both tables
TargetTableAny(targetType) == tasks \cup notes

\* the table the existence check reads: tasks for TASK, notes otherwise
TargetTable(targetType) == IF targetType = "TASK" THEN tasks ELSE notes

CreateReminder(tt, tid, d, m) ==
  LET targetType == IF tt \in {"TASK", "NOTE"} THEN tt ELSE "null"
      targetId == tid
      dueAt == IF d.fmt # "absent" THEN Trim(d) ELSE Empty
      message == IF m # "absent" THEN m ELSE ""
      status ==
        CASE targetType = "null" -> 400
          [] targetId.kind = "nan" -> 400
          [] dueAt = Empty -> 400
          [] ~DateParseFinite(dueAt) -> 400
          [] ~Found(TargetTable(targetType), targetId) -> 404
          [] OTHER -> 201
      row == [ id |-> nextId,
               targetType |-> targetType,
               targetId |-> targetId.v,
               dueAt |-> dueAt,
               message |-> message,
               isDone |-> 0,
               firedAt |-> NULL,
               createdAt |-> nowIso ]
  IN /\ nextId <= MaxReminders
     /\ IF status = 201
        THEN /\ reminders' = reminders \cup {row}
             /\ nextId' = nextId + 1
             /\ ev' = [op |-> "post", status |-> 201, id |-> row.id]
             /\ batch' = NoBatch
        ELSE /\ ev' = [op |-> "post", status |-> status]
             /\ batch' = NoBatch
             /\ UNCHANGED <<reminders, nextId>>
     /\ UNCHANGED <<clock, tasks, notes, delivered, linkVars>>

\* ---- GET /api/reminders ----

\* the includeDone query parameter: absent, or a string
IncludeDoneInputs == {"absent", "1", "true"}

\* WHERE isDone = 0, unless includeDone
ListWhere(r, includeDone) == includeDone \/ r.isDone = 0

\* SELECT * FROM reminders [WHERE isDone = 0] ORDER BY datetime(dueAt) ASC, id ASC
ListSelect(rows, includeDone) == OrderRows({ r \in rows : ListWhere(r, includeDone) })

ListReminders(q) ==
  LET includeDone == q = "1"
      rows == ListSelect(reminders, includeDone)
  IN /\ ev' = [ op |-> "list", includeDone |-> includeDone,
                body |-> [ i \in 1..Len(rows) |-> toReminder(rows[i]) ] ]
     /\ batch' = NoBatch
     /\ UNCHANGED <<clock, store, delivered, linkVars>>

\* ---- PUT /api/reminders/:id ----

\* faulty variant: firedAt is never cleared
NewFiredAtKeep(isDone, existing) == existing.firedAt

\* faulty variant: firedAt is cleared by every update
NewFiredAtClear(isDone, existing) == NULL

\* const firedAt = isDone ? existing.firedAt : null
NewFiredAt(isDone, existing) == IF isDone # 0 THEN existing.firedAt ELSE NULL

UpdateReminder(rid, d, m, b) ==
  IF rid.kind = "nan"
  THEN /\ ev' = [op |-> "put", status |-> 400]
       /\ batch' = NoBatch
       /\ UNCHANGED <<clock, store, delivered, linkVars>>
  ELSE IF ~(rid.kind = "int" /\ \E r \in reminders : r.id = rid.v)
  THEN /\ ev' = [op |-> "put", status |-> 404]
       /\ batch' = NoBatch
       /\ UNCHANGED <<clock, store, delivered, linkVars>>
  ELSE
    LET id == rid.v
        existing == RowById(id)
        dueAt == IF d.fmt # "absent" THEN Trim(d) ELSE existing.dueAt
        message == IF m # "absent" THEN m ELSE existing.message
        isDone == IF b # "absent" THEN (IF b = "true" THEN 1 ELSE 0) ELSE existing.isDone
        firedAt == NewFiredAt(isDone, existing)
        row == [existing EXCEPT !.dueAt = dueAt, !.message = message,
                                !.isDone = isDone, !.firedAt = firedAt]
    IN IF ~DateParseFinite(dueAt)
       THEN /\ ev' = [op |-> "put", status |-> 400]
            /\ batch' = NoBatch
            /\ UNCHANGED <<clock, store, delivered, linkVars>>
       ELSE /\ reminders' = (reminders \ {existing}) \cup {row}
            /\ ev' = [op |-> "put", status |-> 200, id |-> id, hasDueAt |-> d.fmt # "absent",
                      wasFired |-> existing.firedAt # NULL]
            /\ batch' = NoBatch
            /\ delivered' = IF row.firedAt = NULL THEN delivered \ {id} ELSE delivered
            /\ UNCHANGED <<clock, tasks, notes, nextId, linkVars>>

\* ---- DELETE /api/reminders/:id ----
DeleteReminder(rid) ==
  LET status ==
        CASE rid.kind = "nan" -> 400
          [] ~(rid.kind = "int" /\ \E r \in reminders : r.id = rid.v) -> 404
          [] OTHER -> 204
  IN /\ ev' = [op |-> "delete", status |-> status]
     /\ IF status = 204
        THEN /\ reminders' = { r \in reminders : r.id # rid.v }
             /\ delivered' = delivered \ {rid.v}
        ELSE UNCHANGED <<reminders, delivered>>
     /\ batch' = NoBatch
     /\ UNCHANGED <<clock, tasks, notes, nextId, linkVars>>

\* ---- GET /api/reminders/due ----

\* Math.max(1, Math.min(50, Number(req.query.take ?? 20)))
Take(q) ==
  MathMax(MinTake, MathMin(MaxTake, IF q = "absent" THEN Whole(DefaultTake) ELSE Number(q)))

\* faulty variant: the WHERE clause without isDone = 0
DueWhereAnyDone(r, now) ==
  /\ r.firedAt = NULL
  /\ ~SqlDatetimeIsNull(r.dueAt)
  /\ SqlDatetime(r.dueAt) <= SqlDatetime(now)

\* WHERE isDone = 0 AND firedAt IS NULL AND datetime(dueAt) <= datetime(?)
DueWhere(r, now) ==
  /\ r.isDone = 0
  /\ r.firedAt = NULL
  /\ ~SqlDatetimeIsNull(r.dueAt)
  /\ SqlDatetime(r.dueAt) <= SqlDatetime(now)

\* SELECT ... ORDER BY datetime(dueAt) ASC, id ASC LIMIT ?
DueSelect(rows, now, take) == Limit(OrderRows({ r \in rows : DueWhere(r, now) }), take)

\* faulty variant: the UPDATE is missing
MarkFiredNone(rows, now, ids) == rows

\* faulty variant: the UPDATE stamps the due time, not the time of the poll
MarkFiredAtDue(rows, now, ids) ==
  { IF r.id \in ids THEN [r EXCEPT !.firedAt = r.dueAt] ELSE r : r \in rows }

\* faulty variant: the UPDATE has no WHERE clause
MarkFiredAll(rows, now, ids) == { [r EXCEPT !.firedAt = now] : r \in rows }

\* UPDATE reminders SET firedAt = ? WHERE id IN (...)
MarkFired(rows, now, ids) ==
  { IF r.id \in ids THEN [r EXCEPT !.firedAt = now] ELSE r : r \in rows }

\* faulty variant: the transaction returns the rows as they are after the UPDATE
TxReread(rows, now, take) ==
  LET due == DueSelect(rows, now, take)
      table == IF Len(due) > 0 THEN MarkFired(rows, now, Ids(due)) ELSE rows
  IN [ due |-> [ i \in 1..Len(due) |-> RowIn(table, due[i].id) ], table |-> table ]

\* db.transaction(() => { select; update; return due }): the rows it
\* returns and the table it leaves
Tx(rows, now, take) ==
  LET due == DueSelect(rows, now, take)
  IN [ due |-> due,
       table |-> IF Len(due) > 0 THEN MarkFired(rows, now, Ids(due)) ELSE rows ]

\* the server handles a poll; q is its take parameter
HandleDue(q) ==
  LET now == nowIso
      take == Take(q)
      open == IF batch.n = 0 \/ batch.n >= MaxPending
              THEN [ n |-> 0, got |-> <<>>, short |-> FALSE,
                     due |-> { r.id : r \in { x \in reminders : DueArmed(x) } } ]
              ELSE batch
  IN IF take.kind # "int"
     THEN \* LIMIT of a value that is no integer: SQLite raises "datatype
          \* mismatch", the transaction rolls back, express answers 500
          /\ ev' = [op |-> "due", status |-> 500]
          /\ batch' = [open EXCEPT !.n = @ + 1]
          /\ UNCHANGED <<clock, store, delivered, linkVars>>
     ELSE LET tx == Tx(reminders, now, take.v)
              rows == tx.due
          IN /\ reminders' = tx.table
             /\ ev' = [ op |-> "due", status |-> 200, now |-> now, limit |-> take.v,
                        body |-> [ i \in 1..Len(rows) |-> toReminder(rows[i]) ] ]
             /\ batch' = [ open EXCEPT
                             !.n = @ + 1,
                             !.got = @ \o [ i \in 1..Len(rows) |-> rows[i].id ],
                             !.short = @ \/ Len(rows) < take.v ]
             /\ delivered' = delivered \cup Ids(rows)
             /\ UNCHANGED <<clock, tasks, notes, nextId, linkVars>>

\* ---- link attachments ----

\* isValidHttpUrl(input)
isValidHttpUrl(u) == u.scheme \in {"http", "https"}

\* String.prototype.trim of a URL string; '' for a string of white space
TrimUrl(u) == [u EXCEPT !.pad = FALSE]

EmptyUrl == Url("empty", FALSE)

NullText == [name |-> "null", pad |-> FALSE]

\* pick(...values): the first value that is a string and not blank, trimmed
RECURSIVE pick(_)
pick(values) ==
  IF values = <<>> THEN NullText
  ELSE IF Head(values) # Undefined /\ Head(values).name # ""
       THEN [Head(values) EXCEPT !.pad = FALSE]
       ELSE pick(Tail(values))

\* new URL(href, base).toString()
Resolve(href, base) == [href |-> href.name, base |-> base]

\* getLinkPreview when cheerio cannot be loaded
NullPreview(url) ==
  [ url |-> url, title |-> NullText, description |-> NullText,
    imageUrl |-> NullText, faviconUrl |-> NullText ]

\* faulty variant: the fallback of each field is tried before its first choice
ExtractFallbackFirst(page, url) ==
  LET title == pick(<<page.docTitle, page.ogTitle>>)
      description == pick(<<page.metaDescription, page.ogDescription>>)
      imageUrl == pick(<<page.twitterImage, page.ogImage>>)
      faviconHref == pick(<<page.appleIcon, page.shortcutIcon, page.icon>>)
  IN [ url |-> url, title |-> title, description |-> description,
       imageUrl |-> IF imageUrl # NullText THEN Resolve(imageUrl, url) ELSE NullText,
       faviconUrl |-> IF faviconHref # NullText THEN Resolve(faviconHref, url) ELSE NullText ]

\* getLinkPreview from cheerio.load(html) on
Extract(page, url) ==
  LET title == pick(<<page.ogTitle, page.docTitle>>)
      description == pick(<<page.ogDescription, page.metaDescription>>)
      imageUrl == pick(<<page.ogImage, page.twitterImage>>)
      faviconHref == pick(<<page.icon, page.shortcutIcon, page.appleIcon>>)
  IN [ url |-> url, title |-> title, description |-> description,
       imageUrl |-> IF imageUrl # NullText THEN Resolve(imageUrl, url) ELSE NullText,
       faviconUrl |-> IF faviconHref # NullText THEN Resolve(faviconHref, url) ELSE NullText ]

\* the name of the file a capture writes (a hash of the url and the time)
ShotFile == "shot.png"

NoFile == "null"

\* toLinkAttachment(row)
toLinkAttachment(row) ==
  [ id |-> row.id,
    ownerType |-> row.ownerType,
    ownerId |-> row.ownerId,
    url |-> row.url,
    title |-> row.title,
    description |-> row.description,
    imageUrl |-> row.imageUrl,
    faviconUrl |-> row.faviconUrl,
    screenshotUrl |-> IF row.screenshotPath # NoFile
                      THEN <<"/api/link-screenshots", row.screenshotPath>>
                      ELSE <<>>,
    lastFetchedAt |-> row.lastFetchedAt,
    createdAt |-> row.createdAt,
    updatedAt |-> row.updatedAt ]

\* require('cheerio') succeeds
CheerioLoaded(c) == c.cheerio

\* faulty variant: the environment flag is not looked at
ScreenshotGateNoFlag(c) == c.playwright

\* captureScreenshot goes on to launch a browser
ScreenshotGate(c) == c.flag /\ c.playwright

\* the slots of the requests in flight that are free
FreeSlots == (1..MaxPending) \ { r.n : r \in pending }

Others(req) == { r \in pending : r.n # req.n }

\* the handler is suspended at an await that waits for the network or for
\* the browser; the server goes on to handle other requests
Suspend(req, stage, preview) ==
  /\ pending' = Others(req) \cup {[req EXCEPT !.stage = stage, !.preview = preview]}
  /\ ev' = [op |-> "await", route |-> req.route, stage |-> stage]
  /\ browsers' = IF stage = "shot" THEN browsers \cup {req.n} ELSE browsers
  /\ UNCHANGED <<links, nextLinkId>>

\* the catch block of the handler
Fail(req) ==
  /\ pending' = Others(req)
  /\ ev' = [op |-> IF req.route = "PREVIEW" THEN "preview" ELSE "link", status |-> 500]
  /\ UNCHANGED <<links, nextLinkId>>

\* faulty variant: the preview route stores what it found
FinishStoring(req, preview, shot) ==
  LET row == [ id |-> nextLinkId,
               ownerType |-> "TASK",
               ownerId |-> req.ownerId,
               url |-> req.url,
               title |-> preview.title,
               description |-> preview.description,
               imageUrl |-> preview.imageUrl,
               faviconUrl |-> preview.faviconUrl,
               screenshotPath |-> shot,
               lastFetchedAt |-> req.ts,
               createdAt |-> req.ts,
               updatedAt |-> req.ts ]
  IN /\ pending' = Others(req)
     /\ links' = links \cup {row}
     /\ nextLinkId' = nextLinkId + 1
     /\ ev' = [ op |-> IF req.route = "PREVIEW" THEN "preview" ELSE "link",
                status |-> IF req.route = "PREVIEW" THEN 200 ELSE 201,
                body |-> toLinkAttachment(row) ]

\* the handler from the return of captureScreenshot on: the INSERT and the
\* 201 of the link routes, the 200 of the preview route
Finish(req, preview, shot) ==
  LET row == [ id |-> nextLinkId,
               ownerType |-> req.route,
               ownerId |-> req.ownerId,
               url |-> req.url,
               title |-> preview.title,
               description |-> preview.description,
               imageUrl |-> preview.imageUrl,
               faviconUrl |-> preview.faviconUrl,
               screenshotPath |-> shot,
               lastFetchedAt |-> req.ts,
               createdAt |-> req.ts,
               updatedAt |-> req.ts ]
  IN /\ pending' = Others(req)
     /\ IF req.route = "PREVIEW"
        THEN /\ ev' = [ op |-> "preview", status |-> 200,
                        body |-> [ preview |-> preview,
                                   screenshotUrl |-> IF shot # NoFile
                                                     THEN <<"/api/link-screenshots", shot>>
                                                     ELSE <<>> ] ]
             /\ UNCHANGED <<links, nextLinkId>>
        ELSE /\ links' = links \cup {row}
             /\ nextLinkId' = nextLinkId + 1
             /\ ev' = [op |-> "link", status |-> 201, body |-> toLinkAttachment(row)]

\* captureScreenshot up to the launch of the browser
AfterPreview(req, preview) ==
  IF ScreenshotGate(caps)
  THEN Suspend(req, "shot", preview)
  ELSE Finish(req, preview, NoFile) /\ UNCHANGED browsers

\* getLinkPreview up to the fetch
Enrich(req) ==
  IF CheerioLoaded(caps)
  THEN Suspend(req, "fetch", NullPreview(req.url))
  ELSE AfterPreview(req, NullPreview(req.url))

LinkFrame ==
  /\ batch' = NoBatch
  /\ UNCHANGED <<clock, tasks, notes, reminders, nextId, delivered, caps>>

\* ---- POST /api/tasks/:id/links and POST /api/notes/:id/links ----
AddLink(route, oid, u) ==
  LET url == IF u.scheme # "absent" THEN TrimUrl(u) ELSE EmptyUrl
      status ==
        CASE oid.kind = "nan" -> 400
          [] ~Found(IF route = "TASK" THEN tasks ELSE notes, oid) -> 404
          [] url = EmptyUrl \/ ~isValidHttpUrl(url) -> 400
          [] OTHER -> 0
  IN /\ FreeSlots # {}
     /\ nextLinkId + Cardinality({ r \in pending : r.route # "PREVIEW" }) <= MaxLinks
     /\ IF status # 0
        THEN /\ ev' = [op |-> "link", status |-> status]
             /\ UNCHANGED <<links, nextLinkId, pending, browsers>>
        ELSE Enrich([ n |-> CHOOSE n \in FreeSlots : \A k \in FreeSlots : n <= k,
                      route |-> route, ownerId |-> oid.v, url |-> url, ts |-> nowIso,
                      stage |-> "start", preview |-> NullPreview(url) ])
     /\ LinkFrame

\* ---- GET /api/link-preview ----
LinkPreview(u) ==
  LET url == IF u.scheme # "absent" THEN TrimUrl(u) ELSE EmptyUrl
  IN /\ FreeSlots # {}
     /\ IF url = EmptyUrl \/ ~isValidHttpUrl(url)
        THEN /\ ev' = [op |-> "preview", status |-> 400]
             /\ UNCHANGED <<links, nextLinkId, pending, browsers>>
        ELSE Enrich([ n |-> CHOOSE n \in FreeSlots : \A k \in FreeSlots : n <= k,
                      route |-> "PREVIEW", ownerId |-> 0, url |-> url, ts |-> NULL,
                      stage |-> "start", preview |-> NullPreview(url) ])
     /\ LinkFrame

\* the fetch of a suspended request ends
FetchDone(n, out) ==
  /\ \E req \in pending :
       /\ req.n = n
       /\ req.stage = "fetch"
       /\ IF out.kind = "ok"
          THEN AfterPreview(req, Extract(out.page, req.url))
          ELSE Fail(req) /\ UNCHANGED browsers
  /\ LinkFrame

\* faulty variant: the browser is closed after the screenshot only
CloseBrowserOnSuccess(open, n, out) == IF out = "ok" THEN open \ {n} ELSE open

\* try { ... } finally { await browser.close() }
CloseBrowser(open, n, out) == open \ {n}

\* the capture of a suspended request ends, with the file written or with
\* an error thrown in the try block
ShotDone(n, out) ==
  /\ \E req \in pending :
       /\ req.n = n
       /\ req.stage = "shot"
       /\ IF out = "ok"
          THEN Finish(req, req.preview, ShotFile)
          ELSE Fail(req)
  /\ browsers' = CloseBrowser(browsers, n, out)
  /\ LinkFrame

\* ---- DELETE /api/tasks/:id ----

\* faulty variant: the reminders and the links of the task go with it
DeleteTaskCascade(tid) ==
  LET status ==
        CASE tid.kind = "nan" -> 400
          [] ~Found(tasks, tid) -> 404
          [] OTHER -> 204
      gone(type, id) == status = 204 /\ type = "TASK" /\ id = tid.v
  IN /\ tasks' = IF status = 204 THEN tasks \ {tid.v} ELSE tasks
     /\ reminders' = { r \in reminders : ~gone(r.targetType, r.targetId) }
     /\ links' = { l \in links : ~gone(l.ownerType, l.ownerId) }
     /\ ev' = [op |-> "deleteTask", status |-> status]
     /\ batch' = NoBatch
     /\ UNCHANGED <<clock, notes, nextId, delivered, nextLinkId, pending, caps, browsers>>

DeleteTask(tid) ==
  LET status ==
        CASE tid.kind = "nan" -> 400
          [] ~Found(tasks, tid) -> 404
          [] OTHER -> 204
  IN /\ tasks' = IF status = 204 THEN tasks \ {tid.v} ELSE tasks
     /\ ev' = [op |-> "deleteTask", status |-> status]
     /\ batch' = NoBatch
     /\ UNCHANGED <<clock, notes, reminders, nextId, delivered, linkVars>>

\* ---- DELETE /api/notes/:id ----
DeleteNote(nid) ==
  LET status ==
        CASE nid.kind = "nan" -> 400
          [] ~Found(notes, nid) -> 404
          [] OTHER -> 204
  IN /\ notes' = IF status = 204 THEN notes \ {nid.v} ELSE notes
     /\ ev' = [op |-> "deleteNote", status |-> status]
     /\ batch' = NoBatch
     /\ UNCHANGED <<clock, tasks, reminders, nextId, delivered, linkVars>>

Next ==
  \/ Tick
  \/ \E tt \in TargetTypeInputs, tid \in TargetIdInputs, d \in DueAtInputs, m \in MessageInputs :
       CreateReminder(tt, tid, d, m)
  \/ \E rid \in IdInputs, d \in DueAtInputs, m \in MessageInputs, b \in IsDoneInputs :
       UpdateReminder(rid, d, m, b)
  \/ \E rid \in IdInputs : DeleteReminder(rid)
  \/ \E q \in TakeInputs : HandleDue(q)

Spec == Init /\ [][Next]_vars

\* ---- the link-attachment routes, in a process started in any environment,
\* on a database that holds one task and one note ----
InitLinks ==
  /\ clock = 0
  /\ tasks = TargetIds
  /\ notes = TargetIds
  /\ reminders = {}
  /\ nextId = 1
  /\ ev = [op |-> "init"]
  /\ batch = NoBatch
  /\ delivered = {}
  /\ links = {}
  /\ nextLinkId = 1
  /\ pending = {}
  /\ caps \in CapsInputs
  /\ browsers = {}

NextLinks ==
  \/ \E route \in {"TASK", "NOTE"}, oid \in TargetIdInputs, u \in UrlInputs : AddLink(route, oid, u)
  \/ \E u \in UrlInputs : LinkPreview(u)
  \/ \E n \in 1..MaxPending, out \in FetchOutcomes : FetchDone(n, out)
  \/ \E n \in 1..MaxPending, out \in ShotOutcomes : ShotDone(n, out)
  \/ \E tid \in TargetIdInputs : DeleteTask(tid)
  \/ \E nid \in TargetIdInputs : DeleteNote(nid)

SpecLinks == InitLinks /\ [][NextLinks]_vars

\* ---- getLinkPreview on every page: each candidate of each field is
\* missing, blank, or a text surrounded by white space ----
CandidateInputs(name) == {Undefined, Blank, Text(name, TRUE)}

AllPages ==
  [ ogTitle : CandidateInputs("og-title"), docTitle : CandidateInputs("title"),
    ogDescription : CandidateInputs("og-description"),
    metaDescription : CandidateInputs("description"),
    ogImage : CandidateInputs("/og.png"), twitterImage : CandidateInputs("/tw.png"),
    icon : CandidateInputs("/favicon.ico"), shortcutIcon : CandidateInputs("/shortcut.ico"),
    appleIcon : CandidateInputs("/apple.png") ]

InitExtract ==
  /\ clock = 0
  /\ tasks = {}
  /\ notes = {}
  /\ reminders = {}
  /\ nextId = 1
  /\ ev \in { [op |-> "fetched", page |-> pg] : pg \in AllPages }
  /\ batch = NoBatch
  /\ delivered = {}
  /\ links = {}
  /\ nextLinkId = 1
  /\ pending = {}
  /\ caps = [flag |-> FALSE, cheerio |-> TRUE, playwright |-> FALSE]
  /\ browsers = {}

\* getLinkPreview from cheerio.load(html) to its return
ExtractPage(u) ==
  /\ ev.op = "fetched"
  /\ ev' = [op |-> "extracted", page |-> ev.page, preview |-> Extract(ev.page, u)]
  /\ UNCHANGED <<clock, store, batch, delivered, linkVars>>

NextExtract == \E u \in {Url("http", FALSE), Url("https", FALSE)} : ExtractPage(u)

SpecExtract == InitExtract /\ [][NextExtract]_vars

\* ---- the reminder routes together with the routes that delete targets
\* and attach links, on a database that holds one task and one note, in a
\* process started without the optional modules ----
ApiTargetIdInputs == {Whole(1), Whole(0), Frac(1), NaN}

ApiDueAtInputs ==
  { Iso(0), Iso(1),
    [fmt |-> "bad", t |-> 0, pad |-> FALSE],
    Absent }

InitApi ==
  /\ clock = 0
  /\ tasks = TargetIds
  /\ notes = TargetIds
  /\ reminders = {}
  /\ nextId = 1
  /\ ev = [op |-> "init"]
  /\ batch = NoBatch
  /\ delivered = {}
  /\ links = {}
  /\ nextLinkId = 1
  /\ pending = {}
  /\ caps = [flag |-> FALSE, cheerio |-> FALSE, playwright |-> FALSE]
  /\ browsers = {}

NextApi ==
  \/ \E tt \in TargetTypeInputs, tid \in ApiTargetIdInputs, d \in ApiDueAtInputs :
       CreateReminder(tt, tid, d, "ping")
  \/ \E rid \in IdInputs, d \in ApiDueAtInputs, b \in IsDoneInputs :
       UpdateReminder(rid, d, "absent", b)
  \/ \E q \in IncludeDoneInputs : ListReminders(q)
  \/ HandleDue("absent")
  \/ \E tid \in TargetIdInputs : DeleteTask(tid)
  \/ \E nid \in TargetIdInputs : DeleteNote(nid)
  \/ \E route \in {"TASK", "NOTE"} : AddLink(route, Whole(1), Url("http", FALSE))

SpecApi == InitApi /\ [][NextApi]_vars

\* ---- claims ----

\* a poll was handled last and answered 200
Polled == ev.op = "due" /\ ev.status = 200

\* an update was handled last and answered 200
Updated == ev.op = "put" /\ ev.status = 200

\* the number of times id occurs in the sequence ids
Count(id, ids) == Cardinality({ i \in 1..Len(ids) : ids[i] = id })

\* C1: of the polls that race on one store state, every reminder that was
\* due and unfired when they were issued is returned by at most one, and by
\* exactly one when some poll of the race was not cut by its limit.
C1_ExactlyOneOfRacingPolls ==
  batch.n > 0 =>
    \A id \in batch.due :
      /\ Count(id, batch.got) <= 1
      /\ batch.short => Count(id, batch.got) = 1

C3_OnlyArmedEmitted ==
  [][ (ev'.op = "due" /\ ev'.status = 200) =>
        \A i \in 1..Len(ev'.body) :
          \E r \in reminders :
            r.id = ev'.body[i].id /\ r.isDone = 0 /\ r.firedAt = NULL ]_vars

C3_Witness ==
  /\ Polled
  /\ Len(ev.body) > 0
  /\ \E r \in reminders :
       /\ r.id \notin Ids(ev.body)
       /\ (r.isDone = 1 \/ r.id \in delivered)
       /\ ~SqlDatetimeIsNull(r.dueAt)
       /\ SqlDatetime(r.dueAt) <= SqlDatetime(ev.now)

\* C4: a poll handled at instant now returns no reminder whose due instant
\* is later than now.
C4_NotBeforeDue ==
  Polled => \A i \in 1..Len(ev.body) : DateParse(ev.body[i].dueAt) <= ev.now.t

\* C5: a poll whose result is not cut by its limit leaves behind no stored
\* reminder that is not done, not fired and due: whatever create or update
\* accepted is returned once its due instant has passed.
C5_NotLost ==
  (Polled /\ Len(ev.body) < ev.limit) => \A r \in reminders : ~DueArmed(r)

\* C6: right after a poll the stored firedAt of every reminder it returned
\* is the poll's now, and no reminder a poll returned is stored unfired
\* unless an update re-armed it.
C6_StampedWithNow ==
  /\ Polled =>
       \A i \in 1..Len(ev.body) :
         \E r \in reminders : r.id = ev.body[i].id /\ r.firedAt = ev.now
  /\ \A r \in reminders : r.id \in delivered => r.firedAt # NULL

C6_Witness ==
  /\ Polled
  /\ Len(ev.body) = MaxReminders
  /\ ev.now.t > 0

\* C7 as claimed: a returned reminder carries firedAt = the poll's now.
C7_ReturnedWithFiredAt ==
  Polled => \A i \in 1..Len(ev.body) : ev.body[i].firedAt = ev.now

\* C7 as amended: a returned reminder is the row as read before the UPDATE,
\* with firedAt null, while the stored row carries the poll's now.
C7_ReturnedPreUpdate ==
  Polled =>
    \A i \in 1..Len(ev.body) :
      /\ ev.body[i].firedAt = NULL
      /\ RowById(ev.body[i].id).firedAt = ev.now
      /\ ev.body[i] = toReminder([RowById(ev.body[i].id) EXCEPT !.firedAt = NULL])

C7_Witness ==
  /\ Polled
  /\ Len(ev.body) > 0
  /\ ev.body[1].firedAt = NULL
  /\ RowById(ev.body[1].id).firedAt = ev.now

\* C8: an update that sets the dueAt of a fired reminder to a future
\* instant and leaves it not done leaves firedAt = NULL.
C8_RearmOnFutureDue ==
  (/\ Updated
   /\ ev.hasDueAt
   /\ ev.wasFired
   /\ RowById(ev.id).isDone = 0
   /\ DateParse(RowById(ev.id).dueAt) > clock) => RowById(ev.id).firedAt = NULL

C8_Witness ==
  /\ Updated
  /\ ev.hasDueAt
  /\ ev.wasFired
  /\ RowById(ev.id).isDone = 0
  /\ DateParse(RowById(ev.id).dueAt) > clock
  /\ RowById(ev.id).firedAt = NULL

\* C9: an update that sets the dueAt of a fired reminder to an instant that
\* is not later than now leaves firedAt as it was.
C9_PastDueKeepsFiredAt ==
  [][ (/\ ev'.op = "put" /\ ev'.status = 200
       /\ ev'.hasDueAt
       /\ ev'.wasFired
       /\ DateParse(RowIn(reminders', ev'.id).dueAt) <= clock)
      => RowIn(reminders', ev'.id).firedAt = RowIn(reminders, ev'.id).firedAt ]_vars

\* C10: an update that carries no dueAt (message only, isDone only, empty
\* body) leaves firedAt as it was.
C10_NoDueEditKeepsFiredAt ==
  [][ (/\ ev'.op = "put" /\ ev'.status = 200
       /\ ~ev'.hasDueAt)
      => RowIn(reminders', ev'.id).firedAt = RowIn(reminders, ev'.id).firedAt ]_vars

\* C11: an update whose resulting row is done leaves firedAt as it was
\* before the update, whatever else the update changes.
C11_DoneKeepsFiredAt ==
  [][ (/\ ev'.op = "put" /\ ev'.status = 200
       /\ RowIn(reminders', ev'.id).isDone = 1)
      => RowIn(reminders', ev'.id).firedAt = RowIn(reminders, ev'.id).firedAt ]_vars

C11_Witness ==
  /\ Updated
  /\ ev.hasDueAt
  /\ ev.wasFired
  /\ RowById(ev.id).isDone = 1
  /\ RowById(ev.id).firedAt # NULL
  /\ RowById(ev.id).dueAt # Iso(0)
  /\ RowById(ev.id).message = "ping"

\* a reminder that is not done and not fired and whose due instant is not
\* later than the instant t
EligibleAt(r, t) == r.isDone = 0 /\ r.firedAt = NULL /\ DateParse(r.dueAt) <= t

\* (dueAt ascending, id ascending) on due instants
SortsBefore(a, b) ==
  \/ DateParse(a.dueAt) < DateParse(b.dueAt)
  \/ DateParse(a.dueAt) = DateParse(b.dueAt) /\ a.id < b.id

\* C26: a poll returns at most limit reminders, and no reminder that was
\* eligible and is left behind sorts before one that is returned.
C26_FirstByDueAt ==
  Polled =>
    /\ Len(ev.body) <= ev.limit
    /\ \A r \in reminders :
         EligibleAt(r, ev.now.t) =>
           \A i \in 1..Len(ev.body) : ~SortsBefore(r, ev.body[i])

\* C27: every poll, whatever its take parameter, is answered 200 with a
\* limit that is an integer between 1 and 50.
C27_TakeClamped ==
  ev.op = "due" => (ev.status = 200 /\ ev.limit \in MinTake..MaxTake)

\* C29: a poll changes nothing but the firedAt of the reminders it returns,
\* whose firedAt was null; a firedAt that is set is not overwritten.
C29_PollFrame ==
  [][ ev'.op = "due" =>
        /\ UNCHANGED <<tasks, notes, nextId, links, nextLinkId>>
        /\ { r.id : r \in reminders' } = { r.id : r \in reminders }
        /\ \A r \in reminders :
             LET after == RowIn(reminders', r.id)
                 returned == ev'.status = 200 /\ r.id \in Ids(ev'.body)
             IN /\ [after EXCEPT !.firedAt = r.firedAt] = r
                /\ ~returned => after.firedAt = r.firedAt
                /\ r.firedAt # NULL => (after.firedAt = r.firedAt /\ ~returned) ]_vars

C29_Witness ==
  /\ Polled
  /\ Len(ev.body) > 0
  /\ \E r \in reminders : r.firedAt \notin {NULL, ev.now} /\ r.isDone = 0
  /\ \E r \in reminders : r.firedAt = ev.now

\* C30: every stored reminder that is not done and is fired was fired at an
\* instant that is not before its due instant.
C30_FiredNotBeforeDue ==
  \A r \in reminders :
    (r.isDone = 0 /\ r.firedAt # NULL) => DateParse(r.dueAt) <= DateParse(r.firedAt)

\* ---- claims checked under SpecApi ----

\* the reminders a list with this includeDone has to return
Listed(includeDone) == { r \in reminders : includeDone \/ r.isDone = 0 }

\* C12: a list returns exactly the stored reminders that are not done (all
\* of them with includeDone), each once, sorted by due instant ascending and
\* by id ascending among equal due instants.
C12_ListSortedByDueAt ==
  ev.op = "list" =>
    /\ Ids(ev.body) = { r.id : r \in Listed(ev.includeDone) }
    /\ Len(ev.body) = Cardinality(Listed(ev.includeDone))
    /\ \A i, j \in 1..Len(ev.body) :
         i < j =>
           \/ DateParse(ev.body[i].dueAt) < DateParse(ev.body[j].dueAt)
           \/ /\ DateParse(ev.body[i].dueAt) = DateParse(ev.body[j].dueAt)
              /\ ev.body[i].id < ev.body[j].id

\* C13: a create whose targetType, targetId and dueAt pass validation is
\* answered 201 and inserts one row if the table named by targetType holds
\* the id, whatever the other table holds; otherwise it is answered 404 and
\* the table reminders is left as it was.
C13_CreateIffTargetExists ==
  [][ ev'.op = "post" =>
      \A tt \in {"TASK", "NOTE"}, tid \in ApiTargetIdInputs \ {NaN}, d \in {Iso(0), Iso(1)} :
        CreateReminder(tt, tid, d, "ping") =>
          IF tid.kind = "int" /\ tid.v \in (IF tt = "TASK" THEN tasks ELSE notes)
          THEN /\ ev'.status = 201
               /\ \E row \in reminders' :
                    /\ reminders' = reminders \cup {row}
                    /\ row \notin reminders
                    /\ row.targetType = tt
                    /\ row.targetId = tid.v
          ELSE /\ ev'.status = 404
               /\ reminders' = reminders ]_vars

C13_Witness ==
  /\ ev.op = "post"
  /\ ev.status = 201
  /\ RowById(ev.id).targetType = "NOTE"
  /\ RowById(ev.id).targetId \in notes
  /\ RowById(ev.id).targetId \notin tasks
  /\ \E r \in reminders : r.targetType = "TASK"

\* C14: a create with a targetType other than TASK and NOTE, with a
\* targetId that is missing or not a positive integer, or with a dueAt that
\* is missing or not a date, is answered 400 and inserts nothing.
C14_InvalidCreateIs400 ==
  [][ ev'.op = "post" =>
      \A tt \in TargetTypeInputs, tid \in ApiTargetIdInputs, d \in ApiDueAtInputs :
        (/\ CreateReminder(tt, tid, d, "ping")
         /\ \/ tt \notin {"TASK", "NOTE"}
            \/ ~(tid.kind = "int" /\ tid.v > 0)
            \/ d.fmt \notin {"iso", "rfc"})
        => (ev'.status = 400 /\ reminders' = reminders) ]_vars

\* C15: an update of an id the table does not hold is answered 404, an
\* update of a stored reminder with a dueAt string that is not a date is
\* answered 400, and neither changes any stored reminder.
C15_RejectedUpdateChangesNothing ==
  [][ ev'.op = "put" =>
      \A rid \in IdInputs :
        /\ (rid.kind = "int" /\ rid.v \notin { r.id : r \in reminders })
           => \A d \in ApiDueAtInputs, b \in IsDoneInputs :
                \/ (ev'.status = 404 /\ reminders' = reminders)
                \/ ~UpdateReminder(rid, d, "absent", b)
        /\ (rid.kind = "int" /\ rid.v \in { r.id : r \in reminders })
           => \A d \in { x \in ApiDueAtInputs : x.fmt \notin {"absent", "iso", "rfc"} },
                 b \in IsDoneInputs :
                \/ (ev'.status = 400 /\ reminders' = reminders)
                \/ ~UpdateReminder(rid, d, "absent", b) ]_vars

C15_Witness ==
  /\ ev.op = "put"
  /\ ev.status = 400
  /\ Cardinality(reminders) = MaxReminders
  /\ \E r \in reminders : r.isDone = 0 /\ r.firedAt # NULL

\* a reminder whose target, a link whose owner, is not stored any more
Dangling(type, id) == id \notin (IF type = "TASK" THEN tasks ELSE notes)

\* C16: deleting a task or a note leaves the tables reminders and
\* link_attachments as they were; a list returns the reminders whose target
\* is gone like the others, and a poll returns every reminder whose target is
\* gone that is not done, not fired and due.
C16_DanglingKept ==
  [][ /\ ev'.op \in {"deleteTask", "deleteNote"}
         => (reminders' = reminders /\ links' = links)
      /\ ev'.op = "list"
         => \A r \in Listed(ev'.includeDone) :
              Dangling(r.targetType, r.targetId) => r.id \in Ids(ev'.body)
      /\ (ev'.op = "due" /\ ev'.status = 200 /\ Len(ev'.body) < ev'.limit)
         => \A r \in reminders :
              (Dangling(r.targetType, r.targetId) /\ DueArmed(r)) => r.id \in Ids(ev'.body) ]_vars

C16_Witness ==
  /\ Polled
  /\ Len(ev.body) > 0
  /\ Dangling(ev.body[1].targetType, ev.body[1].targetId)
  /\ \E l \in links : Dangling(l.ownerType, l.ownerId)
  /\ tasks = {}
  /\ notes = {}

\* ---- claims about the link-attachment routes (checked under SpecLinks) ----

\* C17: a link request is never answered 500 (persistence does not fail in
\* this model): a fetch that ends in a network error or a non-2xx response,
\* or a capture that times out or crashes, still ends in 201 and a row.
C17_NeverFailsOnAcquisition == ~(ev.op = "link" /\ ev.status = 500)

\* C18: a link request whose url is not an absolute http(s) URL is answered
\* 400, starts no fetch and no browser, and creates no row.
C18_InvalidUrlIs400 ==
  [][ \A route \in {"TASK", "NOTE"}, oid \in TargetIdInputs, u \in UrlInputs :
        (AddLink(route, oid, u) /\ TrimUrl(u).scheme \notin {"http", "https"})
        => (ev'.status = 400 /\ pending' = pending /\ links' = links) ]_vars

\* C19: in a process where cheerio cannot be loaded no request waits for a
\* fetch, no link request is answered 500, and every stored row has title,
\* description, imageUrl and faviconUrl null.
C19_NoParserNoFetch ==
  ~caps.cheerio =>
    /\ \A r \in pending : r.stage # "fetch"
    /\ ~(ev.op = "link" /\ ev.status = 500)
    /\ \A row \in links :
         /\ row.title = NullText
         /\ row.description = NullText
         /\ row.imageUrl = NullText
         /\ row.faviconUrl = NullText

\* C20: a request waits for a browser only in a process with the flag set
\* and playwright present; in every other process a 500 comes from the fetch
\* only; and a row is inserted with a screenshotPath only by the request
\* whose capture just ended well.
C20_ScreenshotGating ==
  [][ /\ \A r \in pending' : r.stage = "shot" => (caps.flag /\ caps.playwright)
      /\ (/\ ~(caps.flag /\ caps.playwright)
          /\ ev'.op \in {"link", "preview"}
          /\ ev'.status = 500)
         => \E req \in pending : req.stage = "fetch" /\ req \notin pending'
      /\ \A row \in links' \ links :
           row.screenshotPath # NoFile =>
             /\ caps.flag /\ caps.playwright
             /\ \E req \in pending :
                  /\ req.stage = "shot"
                  /\ req \notin pending'
                  /\ req.route = row.ownerType
                  /\ req.url = row.url ]_vars

C20_Witness ==
  /\ ev.op = "link"
  /\ ev.status = 201
  /\ \E row \in links : row.screenshotPath = ShotFile /\ row.title # NullText
  /\ \E r \in pending : r.stage = "shot"
\* C24: a link request with an invalid url for an owner that is not stored
\* is answered 400, the validation error, not 404.
C24_UrlCheckedBeforeOwner ==
  [][ ev'.op = "link" =>
      \A route \in {"TASK", "NOTE"}, oid \in TargetIdInputs, u \in UrlInputs :
        (/\ TrimUrl(u).scheme \notin {"http", "https"}
         /\ oid.kind = "int"
         /\ oid.v \notin (IF route = "TASK" THEN tasks ELSE notes)
         /\ AddLink(route, oid, u))
        => ev'.status = 400 ]_vars

\* C25: whenever a row is inserted into link_attachments its owner is
\* stored, also when the owner is deleted while the request waits for the
\* fetch or for the capture.
C25_OwnerExistsAtInsert ==
  [][ \A row \in links' \ links :
        row.ownerId \in (IF row.ownerType = "TASK" THEN tasks' ELSE notes') ]_vars
\* C23: no step of a request to GET /api/link-preview (its start, the end
\* of its fetch, the end of its capture; answered 200, 400 or 500) changes a
\* row of any table.
C23_PreviewStoresNothing ==
  [][ (ev'.op = "preview" \/ (ev'.op = "await" /\ ev'.route = "PREVIEW"))
      => UNCHANGED <<tasks, notes, reminders, nextId, links, nextLinkId>> ]_vars

C23_Witness ==
  /\ ev.op = "preview"
  /\ ev.status = 200
  /\ ev.body.preview.title # NullText
  /\ ev.body.screenshotUrl # <<>>
  /\ links # {}
\* C21: every browser that is launched and not closed belongs to a capture
\* that has not ended: when a capture ends, with the screenshot written or
\* with any failure, its browser is closed.
C21_BrowserClosed ==
  browsers \subseteq { r.n : r \in { x \in pending : x.stage = "shot" } }

C21_Witness ==
  /\ ev.op \in {"link", "preview"}
  /\ ev.status = 500
  /\ ~caps.cheerio
  /\ browsers # {}
  /\ Cardinality(pending) = 1
\* the url of the page a fetch of url brought
FetchedUrl(url, from) ==
  IF from = "same" THEN url
  ELSE [scheme |-> url.scheme, pad |-> url.pad, at |-> "end of redirects"]

\* C22: the favicon and the image url a fetch yields are resolved against
\* the url of the page that was fetched, the end of the redirects.
C22_ResolvedAgainstFetchedPage ==
  [][ ev'.op \in {"link", "preview", "await"} =>
      \A n \in 1..MaxPending, out \in FetchOutcomes :
        (out.kind = "ok" /\ FetchDone(n, out)) =>
          LET req == CHOOSE x \in pending : x.n = n
              found == { row.faviconUrl : row \in links' \ links }
                       \cup { row.imageUrl : row \in links' \ links }
                       \cup { x.preview.faviconUrl : x \in pending' \ pending }
                       \cup { x.preview.imageUrl : x \in pending' \ pending }
          IN \A u \in found \ {NullText} : u.base = FetchedUrl(req.url, out.from) ]_vars
\* ---- claims checked under SpecExtract ----

\* a candidate that is a string and not blank
Present(v) == v # Undefined /\ v.name # ""

\* C28: each field is the first of its candidates, in the order of the
\* spec, that is present and not blank, without the surrounding white
\* space, and null when there is none; a blank candidate hides no later one.
C28_FieldPriority ==
  ev.op = "extracted" =>
    LET p == ev.page
        r == ev.preview
        title == IF Present(p.ogTitle) THEN p.ogTitle.name
                 ELSE IF Present(p.docTitle) THEN p.docTitle.name ELSE "null"
        description == IF Present(p.ogDescription) THEN p.ogDescription.name
                       ELSE IF Present(p.metaDescription) THEN p.metaDescription.name ELSE "null"
        image == IF Present(p.ogImage) THEN p.ogImage.name
                 ELSE IF Present(p.twitterImage) THEN p.twitterImage.name ELSE "null"
        favicon == IF Present(p.icon) THEN p.icon.name
                   ELSE IF Present(p.shortcutIcon) THEN p.shortcutIcon.name
                   ELSE IF Present(p.appleIcon) THEN p.appleIcon.name ELSE "null"
    IN /\ r.title = [name |-> title, pad |-> FALSE]
       /\ r.description = [name |-> description, pad |-> FALSE]
       /\ IF image = "null" THEN r.imageUrl = NullText ELSE r.imageUrl.href = image
       /\ IF favicon = "null" THEN r.faviconUrl = NullText ELSE r.faviconUrl.href = favicon

C28_Witness ==
  /\ ev.op = "extracted"
  /\ ev.page.ogTitle = Blank
  /\ ev.preview.title = Text("title", FALSE)
  /\ ev.page.icon = Undefined
  /\ ev.page.shortcutIcon = Blank
  /\ ev.preview.faviconUrl # NullText
  /\ ev.preview.faviconUrl.href = "/apple.png"
  /\ ev.preview.description = NullText
  /\ ev.preview.imageUrl # NullText
  /\ ev.preview.imageUrl.href = "/og.png"
====
